---- MODULE Spec2Model ----
(***************************************************************************)
(* HomeScreen of the meal-suggestion app: the view state, the suggestMeal  *)
(* handler (normalisation of the ingredient text, the recipe-store fetch,  *)
(* findBestMatch per category) and the form's other handlers.              *)
(*                                                                         *)
(* A JavaScript string is a sequence of characters, and a character is an  *)
(* atom written as a short ASCII name: "buta" is U+8C5A, "h_ne" hiragana   *)
(* ne, "k_ki" katakana ki, "u3000" the ideographic space.                  *)
(***************************************************************************)
EXTENDS Integers, Sequences, FiniteSets, TLC

VARIABLES
    ingredients,    \* useState('')            text of the ingredient field
    selectedGenre,  \* useState<Genre>         genre of the dropdown
    showDropdown,   \* useState(false)
    loading,        \* useState(false)
    mealPlan,       \* useState<MealPlan|null>
    error,          \* useState('')
    pc,             \* position of suggestMeal: "idle", or "await" (line 66)
    submitted,      \* the ingredients text the running/last invocation read
    fetching,       \* the store query in flight, [genre |-> g], Null when none
    ingredientList, \* local of suggestMeal (line 55)
    recipes,        \* local of suggestMeal (line 66): data of the response
    fetchError,     \* local of suggestMeal (line 66): error of the response
    rejection,      \* what the await of line 66 threw, Null when nothing
    fetchCount,     \* store fetches issued by the running/last invocation
    matchCalls,     \* findBestMatch calls made by the running/last invocation
    returned        \* where the last finished invocation returned

vars == <<ingredients, selectedGenre, showDropdown, loading, mealPlan, error,
          pc, submitted, fetching, ingredientList, recipes, fetchError,
          rejection, fetchCount, matchCalls, returned>>

\* JavaScript's null, for a value that is otherwise an object (a record)
Null == [null |-> TRUE]

\* a non-null array: arrays that may be null are held boxed
Rows(pool) == [rows |-> pool]

----------------------------------------------------------------------------
(* Bounds of the model. *)

MaxPool == 3    \* recipes in one response of the store, under SpecMatch
MaxPoolUI == 1  \* recipes in one response, under Spec and SpecNorm
MaxRaw == 4     \* characters of an enumerated ingredient text

----------------------------------------------------------------------------
(* Characters and the string built-ins the handler uses. *)

Whitespace == {" ", "u3000"}

LowerChar(c) ==
    CASE c = "A" -> "a"
      [] c = "B" -> "b"
      [] c = "O" -> "o"
      [] c = "N" -> "n"
      [] c = "I" -> "i"
      [] OTHER -> c

RECURSIVE toLowerCase(_)
toLowerCase(s) ==
    IF s = <<>> THEN <<>> ELSE <<LowerChar(Head(s))>> \o toLowerCase(Tail(s))

RECURSIVE trimStart(_)
trimStart(s) ==
    IF s # <<>> /\ Head(s) \in Whitespace THEN trimStart(Tail(s)) ELSE s

RECURSIVE trimEnd(_)
trimEnd(s) ==
    IF s # <<>> /\ s[Len(s)] \in Whitespace
    THEN trimEnd(SubSeq(s, 1, Len(s) - 1))
    ELSE s

\* a variant that trims the front only
trimFrontOnly(s) == trimStart(s)

trim(s) == trimEnd(trimStart(s))

\* s.split(','): the pieces between the commas, "" giving one empty piece.
RECURSIVE split(_)
split(s) ==
    IF \A i \in 1..Len(s) : s[i] # ","
    THEN <<s>>
    ELSE LET k == CHOOSE i \in 1..Len(s) :
                      s[i] = "," /\ \A j \in 1..(i - 1) : s[j] # ","
         IN  <<SubSeq(s, 1, k - 1)>> \o split(SubSeq(s, k + 1, Len(s)))

startsWith(s, t) == Len(t) <= Len(s) /\ SubSeq(s, 1, Len(t)) = t

\* s.includes(t)
RECURSIVE includes(_, _)
includes(s, t) ==
    \/ startsWith(s, t)
    \/ s # <<>> /\ includes(Tail(s), t)

RECURSIVE normalizePieces(_)
normalizePieces(pieces) ==
    IF pieces = <<>> THEN <<>>
    ELSE <<toLowerCase(trim(Head(pieces)))>> \o normalizePieces(Tail(pieces))

\* a variant of the filter that keeps every piece
keepAll(i) == TRUE

nonEmpty(i) == Len(i) > 0

\* ingredients.split(',').map((i) => i.trim().toLowerCase()).filter(...)
normalize(raw) == SelectSeq(normalizePieces(split(raw)), nonEmpty)

----------------------------------------------------------------------------
(* findBestMatch. *)

userIngMatches(ing, list) ==
    \E k \in 1..Len(list) : includes(toLowerCase(ing), list[k])

\* a variant that counts the matching (entry, token) pairs
RECURSIVE matchCountPerToken(_, _)
matchCountPerToken(ings, list) ==
    IF ings = <<>> THEN 0
    ELSE Cardinality({k \in 1..Len(list) :
                         includes(toLowerCase(Head(ings)), list[k])})
         + matchCountPerToken(Tail(ings), list)

RECURSIVE matchCount(_, _)
matchCount(ings, list) ==
    IF ings = <<>> THEN 0
    ELSE (IF userIngMatches(Head(ings), list) THEN 1 ELSE 0)
         + matchCount(Tail(ings), list)

\* a variant without the category filter
categoryRecipesUnfiltered(pool, category) == pool

RECURSIVE categoryRecipes(_, _)
categoryRecipes(pool, category) ==
    IF pool = <<>> THEN <<>>
    ELSE (IF Head(pool).category = category THEN <<Head(pool)>> ELSE <<>>)
         \o categoryRecipes(Tail(pool), category)

RECURSIVE scored(_, _)
scored(cands, list) ==
    IF cands = <<>> THEN <<>>
    ELSE <<[recipe |-> Head(cands),
            score |-> matchCount(Head(cands).ingredients, list)]>>
         \o scored(Tail(cands), list)

\* a variant with the operands swapped: ascending
compareAscending(a, b) == a.score - b.score

\* (a, b) => b.score - a.score
compare(a, b) == b.score - a.score

\* Array.prototype.sort is stable (ECMAScript 2019): an element moves in
\* front of another only when the comparator orders it strictly before.
\* a variant of an unstable sort: a later element passes its equals
RECURSIVE insertUnstable(_, _)
insertUnstable(sorted, x) ==
    IF sorted = <<>> THEN <<x>>
    ELSE IF compare(Head(sorted), x) >= 0
         THEN <<x>> \o sorted
         ELSE <<Head(sorted)>> \o insertUnstable(Tail(sorted), x)

RECURSIVE insert(_, _)
insert(sorted, x) ==
    IF sorted = <<>> THEN <<x>>
    ELSE IF compare(Head(sorted), x) > 0
         THEN <<x>> \o sorted
         ELSE <<Head(sorted)>> \o insert(Tail(sorted), x)

RECURSIVE sort(_)
sort(s) ==
    IF s = <<>> THEN <<>>
    ELSE insert(sort(SubSeq(s, 1, Len(s) - 1)), s[Len(s)])

\* a variant with a minimum score of 1
findBestMatchThreshold(pool, list, category) ==
    LET s == sort(scored(categoryRecipes(pool, category), list))
    IN  IF Len(s) > 0 /\ s[1].score > 0 THEN s[1].recipe ELSE Null

findBestMatch(pool, list, category) ==
    LET s == sort(scored(categoryRecipes(pool, category), list))
    IN  IF Len(s) > 0 THEN s[1].recipe ELSE Null

----------------------------------------------------------------------------
(* The data the environment supplies: ingredient texts and store responses. *)

Genres == {"washoku", "youshoku", "chuuka"}

\* the three categories findBestMatch is called with (lines 94-96)
MainDish == "shusai"
SideDish == "fukusai"
Soup == "shirumono"
SlotCategories == {MainDish, SideDish, Soup}

\* Recipe.category is a string: the store may hold other categories too
Categories == SlotCategories \cup {"dessert"}

butaniku == <<"buta", "niku">>
tamanegi == <<"tama", "h_ne", "h_gi">>
toriniku == <<"tori", "niku">>
jagaimo == <<"h_ji", "h_xya", "h_ga", "h_i", "h_mo">>
kyabetsu == <<"k_ki", "k_xya", "k_be", "k_tsu">>

\* Recipe.ingredients of the recipes the store holds: "豚肉", "玉ねぎ";
\* "鶏肉", "じゃがいも"; "キャベツ", "Ab", "b", "b"
IngredientLists ==
    { <<butaniku, tamanegi>>,
      <<toriniku, jagaimo>>,
      <<kyabetsu, <<"A", "b">>, <<"b">>, <<"b">>>> }

\* the same, and a recipe without ingredients
IngredientListsOrNone ==
    { <<butaniku, tamanegi>>,
      <<toriniku, jagaimo>>,
      <<kyabetsu, <<"A", "b">>, <<"b">>, <<"b">>>>,
      <<>> }

\* the fields of Recipe the handler reads; name, steps, created_at are opaque
Recipe(i, g, c, l) == [id |-> i, genre |-> g, category |-> c, ingredients |-> l]

\* the rows of a response to .from('recipes').select('*').eq('genre', g):
\* row i has the category and the ingredients content[i] gives
RowsOf(g, content) ==
    [i \in DOMAIN content |-> Recipe(i, g, content[i][1], content[i][2])]

RECURSIVE Strings(_, _)
Strings(chars, n) ==
    IF n = 0 THEN {<<>>}
    ELSE LET shorter == Strings(chars, n - 1)
         IN  shorter \cup { Append(s, c) : s \in shorter, c \in chars }

\* " 豚肉 , ,ONION "
ExampleRaw ==
    <<" ", "buta", "niku", " ", ",", " ", ",", "O", "N", "I", "O", "N", " ">>

\* texts typed into the form
UIRaws ==
    { <<>>,
      <<" ", ",", "u3000">>,
      <<"niku">>,
      <<"a", ",", "B">> }

\* texts for the matcher: "豚肉,じゃがいも", "キャベツ", "肉,玉ねぎ", " A ,b"
MatchRaws ==
    { butaniku \o <<",">> \o jagaimo,
      kyabetsu,
      <<"niku", ",">> \o tamanegi,
      <<" ", "A", " ", ",", "b">> }

NormChars == {"a", "b", "B", ",", " ", "u3000"}
NormRaws == Strings(NormChars, MaxRaw) \cup {ExampleRaw}

----------------------------------------------------------------------------
(* The view state and the handlers. *)

MsgEnterIngredients == "shokuzai wo nyuuryoku shite kudasai"
MsgNoRecipes == "gaitou suru reshipi ga mitsukarimasen deshita"
MsgFailed == "eraa ga hassei shimashita"

Init ==
    /\ ingredients = <<>>
    /\ selectedGenre = "washoku"
    /\ showDropdown = FALSE
    /\ loading = FALSE
    /\ mealPlan = Null
    /\ error = ""
    /\ pc = "idle"
    /\ submitted = <<>>
    /\ fetching = Null
    /\ ingredientList = <<>>
    /\ recipes = Null
    /\ fetchError = Null
    /\ rejection = Null
    /\ fetchCount = 0
    /\ matchCalls = 0
    /\ returned = "none"

\* onChangeText={setIngredients}
setIngredients(raw) ==
    /\ ingredients' = raw
    /\ UNCHANGED <<selectedGenre, showDropdown, loading, mealPlan, error, pc,
                   submitted, fetching, ingredientList, recipes, fetchError,
                   rejection, fetchCount, matchCalls, returned>>

\* onPress={() => setShowDropdown(!showDropdown)}
toggleDropdown ==
    /\ showDropdown' = ~showDropdown
    /\ UNCHANGED <<ingredients, selectedGenre, loading, mealPlan, error, pc,
                   submitted, fetching, ingredientList, recipes, fetchError,
                   rejection, fetchCount, matchCalls, returned>>

\* a dropdown item's onPress; the items are rendered only while showDropdown
selectGenre(genre) ==
    /\ showDropdown
    /\ selectedGenre' = genre
    /\ showDropdown' = FALSE
    /\ UNCHANGED <<ingredients, loading, mealPlan, error, pc,
                   submitted, fetching, ingredientList, recipes, fetchError,
                   rejection, fetchCount, matchCalls, returned>>

\* ingredientList.length === 0
isEmptyQuery(list) == Len(list) = 0

\* a variant without setMealPlan(null)
clearedErrorOnly == [error |-> "", mealPlan |-> mealPlan]

\* setError(''); setMealPlan(null) at the start of suggestMeal
cleared == [error |-> "", mealPlan |-> Null]

\* suggestMeal from the press of the button (disabled while loading) to its
\* return at line 63 or its suspension at the await of line 66
suggestMeal ==
    /\ ~loading
    /\ submitted' = ingredients
    /\ ingredientList' = normalize(ingredients)
    /\ recipes' = Null
    /\ fetchError' = Null
    /\ rejection' = Null
    /\ matchCalls' = 0
    /\ mealPlan' = cleared.mealPlan
    /\ IF isEmptyQuery(ingredientList')
       THEN /\ error' = MsgEnterIngredients
            /\ loading' = FALSE
            /\ pc' = "idle"
            /\ fetching' = Null
            /\ fetchCount' = 0
            /\ returned' = "emptyQuery"
       ELSE /\ error' = cleared.error
            /\ loading' = TRUE
            /\ pc' = "await"
            /\ fetching' = [genre |-> selectedGenre]
            /\ fetchCount' = 1
            /\ UNCHANGED returned
    /\ UNCHANGED <<ingredients, selectedGenre, showDropdown>>

\* a variant that tests for null only
isNullPool(data) == data = Null

\* !recipes || recipes.length === 0
isEmptyPool(data) == data = Null \/ Len(data.rows) = 0

\* a variant that ignores the response's error
throwsNever(err) == FALSE

\* if (fetchError) throw fetchError
throws(err) == err # Null

selectMealPlan(pool, list) ==
    [mainDish |-> findBestMatch(pool, list, MainDish),
     sideDish |-> findBestMatch(pool, list, SideDish),
     soup |-> findBestMatch(pool, list, Soup)]

\* suggestMeal from the await of line 66, resumed with {data, error}, to its end
fetchFulfilled(data, err) ==
    /\ pc = "await"
    /\ pc' = "idle"
    /\ fetching' = Null
    /\ recipes' = data
    /\ fetchError' = err
    /\ loading' = FALSE
    /\ IF throws(err)
       THEN /\ error' = MsgFailed
            /\ returned' = "storeFailure"
            /\ UNCHANGED <<mealPlan, matchCalls>>
       ELSE IF isEmptyPool(data)
       THEN /\ error' = MsgNoRecipes
            /\ returned' = "emptyPool"
            /\ UNCHANGED <<mealPlan, matchCalls>>
       ELSE /\ mealPlan' = selectMealPlan(data.rows, ingredientList)
            /\ matchCalls' = matchCalls + 3
            /\ returned' = "success"
            /\ UNCHANGED error
    /\ UNCHANGED <<ingredients, selectedGenre, showDropdown, submitted,
                   ingredientList, rejection, fetchCount>>

\* suggestMeal from the await of line 66, which throws, to its end
fetchRejected ==
    /\ pc = "await"
    /\ pc' = "idle"
    /\ fetching' = Null
    /\ rejection' = [name |-> "TypeError", message |-> "Network request failed"]
    /\ error' = MsgFailed
    /\ loading' = FALSE
    /\ returned' = "storeFailure"
    /\ UNCHANGED <<ingredients, selectedGenre, showDropdown, mealPlan,
                   submitted, ingredientList, recipes, fetchError, fetchCount,
                   matchCalls>>

\* the store answers the query in flight with at most n recipes of its genre
fetchData(n, cats, lists) ==
    /\ fetching # Null
    /\ \E k \in 0..n : \E content \in [1..k -> cats \X lists] :
           fetchFulfilled(Rows(RowsOf(fetching.genre, content)), Null)

fetchNull == fetchFulfilled(Null, Null)

fetchFailed == fetchFulfilled(Null, [message |-> "PostgrestError"])

Next ==
    \/ \E raw \in UIRaws : setIngredients(raw)
    \/ toggleDropdown
    \/ \E genre \in Genres : selectGenre(genre)
    \/ suggestMeal
    \/ fetchData(MaxPoolUI, Categories, IngredientListsOrNone)
    \/ fetchNull
    \/ fetchFailed
    \/ fetchRejected

Spec == Init /\ [][Next]_vars

----------------------------------------------------------------------------
(* One request of the matcher: the form holds one of the matcher's texts,  *)
(* the button is pressed and the store answers with any pool of at most    *)
(* MaxPool recipes.                                                        *)

InitFrom(raws) ==
    /\ ingredients \in raws
    /\ selectedGenre = "washoku"
    /\ showDropdown = FALSE
    /\ loading = FALSE
    /\ mealPlan = Null
    /\ error = ""
    /\ pc = "idle"
    /\ submitted = <<>>
    /\ fetching = Null
    /\ ingredientList = <<>>
    /\ recipes = Null
    /\ fetchError = Null
    /\ rejection = Null
    /\ fetchCount = 0
    /\ matchCalls = 0
    /\ returned = "none"

InitMatch == InitFrom(MatchRaws)

NextMatch ==
    \/ suggestMeal
    \/ fetchData(MaxPool, Categories, IngredientLists)

SpecMatch == InitMatch /\ [][NextMatch]_vars

----------------------------------------------------------------------------
(* One request of the normaliser: the form holds any text of at most       *)
(* MaxRaw characters, or the example text; the store answers with main     *)
(* dishes whose ingredients are written in the texts' letters.             *)

NormLists == { <<<<"A", "b">>, <<"b">>, <<"b">>>>, <<<<"a">>, <<"B", "a">>>> }

InitNorm == InitFrom(NormRaws)

NextNorm ==
    \/ suggestMeal
    \/ fetchData(MaxPoolUI, {MainDish}, NormLists)

SpecNorm == InitNorm /\ [][NextNorm]_vars

----------------------------------------------------------------------------
(* What the claims speak of, stated without the handler's own operators.   *)

Range(f) == { f[i] : i \in DOMAIN f }

\* t occurs in s as a contiguous run of characters
IsSubstring(t, s) ==
    \E k \in 0..(Len(s) - Len(t)) : \A j \in 1..Len(t) : s[k + j] = t[j]

LowerCased(s) == [i \in 1..Len(s) |-> LowerChar(s[i])]

\* the entries of ings, by position, that contain one of the tokens
MatchingEntries(ings, tokens) ==
    { i \in 1..Len(ings) :
        \E t \in tokens : IsSubstring(t, LowerCased(ings[i])) }

MatchScore(r, tokens) == Cardinality(MatchingEntries(r.ingredients, tokens))

\* the pool and the query of the request whose plan is shown
Pool == recipes.rows
Query == Range(ingredientList)

Slot(X) ==
    CASE X = MainDish -> mealPlan.mainDish
      [] X = SideDish -> mealPlan.sideDish
      [] X = Soup -> mealPlan.soup

\* positions in the pool of the recipes of category X
Candidates(X) == { i \in 1..Len(Pool) : Pool[i].category = X }

Min(S) == CHOOSE x \in S : \A y \in S : x <= y
Max(S) == CHOOSE x \in S : \A y \in S : y <= x

\* the match score of each recipe of the pool, by position
Scores == [i \in 1..Len(Pool) |-> MatchScore(Pool[i], Query)]

\* suggestMeal has been invoked
Invoked == returned # "none" \/ pc = "await"

----------------------------------------------------------------------------
(* Claims about the matcher, under SpecMatch. *)

\* C1: a recipe selected for a category's slot has that category, is a
\* recipe of the pool, and no recipe of the pool with the same category has
\* a strictly greater match score.
C1_SelectedHasMaxScore ==
    mealPlan # Null =>
        LET score == Scores
        IN  \A X \in SlotCategories :
                Slot(X) # Null =>
                    /\ Slot(X).category = X
                    /\ \E i \in 1..Len(Pool) : Pool[i] = Slot(X)
                    /\ \A i \in 1..Len(Pool) :
                           Pool[i].category = X =>
                               score[i] <= MatchScore(Slot(X), Query)

\* C1 witness: the main dish selected is not the first main dish of the
\* pool, which scores strictly less.
C1_Witness ==
    /\ mealPlan # Null
    /\ mealPlan.mainDish # Null
    /\ \E i \in Candidates(MainDish) :
           /\ i < mealPlan.mainDish.id
           /\ MatchScore(Pool[i], Query)
                  < MatchScore(mealPlan.mainDish, Query)

\* C2: when several recipes of a category share its maximum score, the slot
\* holds the one that comes first in the pool; in the scenario of the two
\* main dishes and the query "豚肉,じゃがいも" both score 1 and the first wins.
C2_TieBreakFirstInPool ==
    mealPlan # Null =>
        /\ LET score == Scores
           IN  \A X \in SlotCategories :
                   Candidates(X) # {} =>
                       LET best == Max({ score[i] : i \in Candidates(X) })
                       IN  Slot(X) = Pool[Min({ i \in Candidates(X) :
                                                  score[i] = best })]
        /\ \A a, b \in { <<butaniku, tamanegi>>, <<toriniku, jagaimo>> } :
               ( /\ a # b
                 /\ ingredientList = <<butaniku, jagaimo>>
                 /\ Len(Pool) = 2
                 /\ Pool[1].category = MainDish /\ Pool[1].ingredients = a
                 /\ Pool[2].category = MainDish /\ Pool[2].ingredients = b )
               => /\ matchCount(a, ingredientList) = 1
                  /\ matchCount(b, ingredientList) = 1
                  /\ mealPlan.mainDish = Pool[1]

\* C2 witness: the scenario, and a third main dish in front that scores 0.
C2_Witness ==
    /\ mealPlan # Null
    /\ ingredientList = <<butaniku, jagaimo>>
    /\ Len(Pool) = 3
    /\ \A i \in 1..3 : Pool[i].category = MainDish
    /\ Pool[1].ingredients = <<kyabetsu, <<"A", "b">>, <<"b">>, <<"b">>>>
    /\ Pool[2].ingredients = <<toriniku, jagaimo>>
    /\ Pool[3].ingredients = <<butaniku, tamanegi>>
    /\ mealPlan.mainDish = Pool[2]

\* C3: after a response with at least one recipe a plan is shown, without an
\* error, and a slot is null exactly when the pool has no recipe of its
\* category: there is no minimum score.
C3_NullIffEmptyCategory ==
    (pc = "idle" /\ recipes # Null /\ fetchError = Null /\ Len(Pool) > 0) =>
        /\ mealPlan # Null
        /\ error = ""
        /\ \A X \in SlotCategories :
               Slot(X) = Null <=> Candidates(X) = {}

\* C3 witness: a category whose candidates all score 0 gets a recipe, and
\* another category is empty.
C3_Witness ==
    /\ mealPlan # Null
    /\ Candidates(Soup) = {}
    /\ mealPlan.soup = Null
    /\ Cardinality(Candidates(SideDish)) = 2
    /\ \A i \in Candidates(SideDish) : MatchScore(Pool[i], Query) = 0
    /\ mealPlan.sideDish # Null
    /\ error = ""

\* C4 as stated: with the query "キャベツ", when no side dish of the pool
\* contains a matching ingredient the side-dish slot is absent.
C4_AbsentWhenNoSideDishMatches ==
    ( /\ mealPlan # Null
      /\ ingredientList = <<kyabetsu>>
      /\ \A i \in Candidates(SideDish) : MatchScore(Pool[i], Query) = 0 )
    => mealPlan.sideDish = Null

\* C4 amended: with the query "キャベツ", the side-dish slot is absent when
\* the pool has no side dish at all; side dishes none of which contains a
\* matching ingredient still fill the slot, with the first of them; and in
\* every category a sole candidate that scores 0 is selected.
C4_AbsentOnlyWithoutSideDish ==
    (mealPlan # Null /\ ingredientList = <<kyabetsu>>) =>
        /\ Candidates(SideDish) = {} => mealPlan.sideDish = Null
        /\ ( /\ Candidates(SideDish) # {}
             /\ \A i \in Candidates(SideDish) :
                    MatchScore(Pool[i], Query) = 0 )
           => mealPlan.sideDish = Pool[Min(Candidates(SideDish))]
        /\ \A X \in SlotCategories :
               \A i \in Candidates(X) :
                   (Candidates(X) = {i} /\ MatchScore(Pool[i], Query) = 0)
                       => Slot(X) = Pool[i]

\* C4 witness: the query "キャベツ", no side dish, and a sole main dish that
\* scores 0 and is selected while the only soup matches.
C4_Witness ==
    /\ mealPlan # Null
    /\ ingredientList = <<kyabetsu>>
    /\ Candidates(SideDish) = {}
    /\ mealPlan.sideDish = Null
    /\ Cardinality(Candidates(MainDish)) = 1
    /\ mealPlan.mainDish # Null
    /\ MatchScore(mealPlan.mainDish, Query) = 0
    /\ mealPlan.soup # Null
    /\ MatchScore(mealPlan.soup, Query) = 1

\* C5: the score findBestMatch computes for a recipe is the number of its
\* ingredient entries, duplicates counted separately, whose lower-cased text
\* contains at least one query token; it lies between 0 and the number of
\* entries.
C5_ScoreCountsMatchingEntries ==
    (pc = "idle" /\ recipes # Null) =>
        \A i \in 1..Len(Pool) :
            LET r == Pool[i]
                score == matchCount(r.ingredients, ingredientList)
            IN  /\ score = MatchScore(r, Query)
                /\ 0 <= score
                /\ score <= Len(r.ingredients)

\* C5 witness: the recipe "キャベツ", "Ab", "b", "b" and the tokens "a", "b":
\* the entry "Ab" holds both tokens and counts once, the token "b" is in
\* three entries, two of them equal, and the score is 3 of 4.
C5_Witness ==
    /\ pc = "idle"
    /\ recipes # Null
    /\ ingredientList = <<<<"a">>, <<"b">>>>
    /\ \E i \in 1..Len(Pool) :
           /\ Pool[i].ingredients = <<kyabetsu, <<"A", "b">>, <<"b">>, <<"b">>>>
           /\ matchCount(Pool[i].ingredients, ingredientList) = 3

----------------------------------------------------------------------------
(* Claims about the requests of the form, under Spec. *)

OnlySeparators(raw) ==
    \A i \in 1..Len(raw) : raw[i] = "," \/ raw[i] \in Whitespace

\* C6: an invocation on a text of nothing but commas and whitespace (the
\* empty text too) ends with the validation message, mealPlan null, no fetch
\* issued and no findBestMatch call.
C6_EmptyQueryRejected ==
    (Invoked /\ OnlySeparators(submitted)) =>
        /\ pc = "idle"
        /\ ~loading
        /\ error = MsgEnterIngredients
        /\ mealPlan = Null
        /\ fetching = Null
        /\ fetchCount = 0
        /\ matchCalls = 0

\* C6 witness: the text " ,<ideographic space>" was submitted.
C6_Witness ==
    /\ returned = "emptyQuery"
    /\ pc = "idle"
    /\ submitted = <<" ", ",", "u3000">>
    /\ error = MsgEnterIngredients
    /\ recipes = Null
    /\ fetchCount = 0

\* the fetch of the last invocation came back without an error
FetchSucceeded ==
    pc = "idle" /\ fetchCount = 1 /\ fetchError = Null /\ rejection = Null

\* C7: when the fetch succeeds with no recipes (an empty list, or null) the
\* request ends with the "no matching recipes" message, mealPlan null and no
\* findBestMatch call.
C7_EmptyPoolReported ==
    (FetchSucceeded /\ (recipes = Null \/ Len(recipes.rows) = 0)) =>
        /\ ~loading
        /\ error = MsgNoRecipes
        /\ mealPlan = Null
        /\ matchCalls = 0

\* C7 witness: the store answered with an empty list.
C7_Witness ==
    /\ FetchSucceeded
    /\ recipes = Rows(<<>>)
    /\ error = MsgNoRecipes
    /\ mealPlan = Null

\* C8: when the fetch reports an error (in the response, or by throwing) the
\* request ends with the generic failure message and mealPlan null, after
\* exactly one fetch and no findBestMatch call.
C8_StoreFailureReported ==
    (pc = "idle" /\ (fetchError # Null \/ rejection # Null)) =>
        /\ ~loading
        /\ error = MsgFailed
        /\ mealPlan = Null
        /\ fetchCount = 1
        /\ matchCalls = 0

\* C8 witness: the response carried an error.
C8_Witness ==
    /\ pc = "idle"
    /\ fetchError # Null
    /\ error = MsgFailed
    /\ fetchCount = 1

\* C10: error and mealPlan are never both set; a finished request leaves
\* loading false and exactly one of them set, the error on the three failure
\* paths and the plan on success; a running request has cleared both.
C10_ErrorXorPlan ==
    /\ ~(error # "" /\ mealPlan # Null)
    /\ (pc = "idle" /\ returned # "none") =>
           /\ ~loading
           /\ returned \in {"emptyQuery", "emptyPool", "storeFailure"} =>
                  error # "" /\ mealPlan = Null
           /\ returned = "success" => error = "" /\ mealPlan # Null
           /\ returned = "emptyQuery" <=> isEmptyQuery(ingredientList)
           /\ returned = "storeFailure" <=>
                  (fetchError # Null \/ rejection # Null)
           /\ returned = "success" <=>
                  (FetchSucceeded /\ recipes # Null /\ Len(recipes.rows) > 0)
    /\ pc = "await" => loading /\ error = "" /\ mealPlan = Null

\* C10 witness: a request runs after one that showed a plan, the plan gone.
C10_Witness ==
    /\ pc = "await"
    /\ returned = "success"
    /\ loading
    /\ mealPlan = Null
    /\ error = ""

----------------------------------------------------------------------------
(* The claim about the normaliser, under SpecNorm. *)

CommaAt(raw) == { i \in 1..Len(raw) : raw[i] = "," }

NthComma(raw, k) ==
    CHOOSE i \in CommaAt(raw) :
        Cardinality({ j \in CommaAt(raw) : j <= i }) = k

PieceCount(raw) == Cardinality(CommaAt(raw)) + 1

\* the k-th comma-separated piece of raw
Piece(raw, k) ==
    SubSeq(raw,
           IF k = 1 THEN 1 ELSE NthComma(raw, k - 1) + 1,
           IF k = PieceCount(raw) THEN Len(raw) ELSE NthComma(raw, k) - 1)

\* p without its leading and trailing whitespace
Trimmed(p) ==
    LET solid == { i \in 1..Len(p) : p[i] \notin Whitespace }
    IN  IF solid = {} THEN <<>> ELSE SubSeq(p, Min(solid), Max(solid))

Token(raw, k) == LowerCased(Trimmed(Piece(raw, k)))

Kept(raw) == { k \in 1..PieceCount(raw) : Len(Token(raw, k)) > 0 }

NthKept(raw, m) ==
    CHOOSE k \in Kept(raw) : Cardinality({ j \in Kept(raw) : j <= k }) = m

\* the pieces of raw, trimmed and lower-cased, the empty ones dropped
ExpectedTokens(raw) ==
    [m \in 1..Cardinality(Kept(raw)) |-> Token(raw, NthKept(raw, m))]

\* list without the repetitions of a token
RECURSIVE Dedupe(_)
Dedupe(list) ==
    IF list = <<>> THEN <<>>
    ELSE LET front == Dedupe(SubSeq(list, 1, Len(list) - 1))
             last == list[Len(list)]
         IN  IF last \in Range(front) THEN front ELSE Append(front, last)

\* C9: the tokens used for matching are the comma-separated pieces of the
\* text, trimmed and lower-cased, the empty ones dropped; " 豚肉 , ,ONION "
\* gives "豚肉", "onion"; and repeated tokens change no score and no
\* selection.
C9_NormalizedTokens ==
    Invoked =>
        /\ ingredientList = ExpectedTokens(submitted)
        /\ submitted = ExampleRaw =>
               ingredientList = <<butaniku, <<"o", "n", "i", "o", "n">>>>
        /\ (pc = "idle" /\ recipes # Null) =>
               /\ \A i \in 1..Len(Pool) :
                      matchCount(Pool[i].ingredients, ingredientList)
                          = matchCount(Pool[i].ingredients,
                                       Dedupe(ingredientList))
               /\ mealPlan # Null =>
                      mealPlan = selectMealPlan(Pool, Dedupe(ingredientList))

\* C9 witness: " B,b" gave the token "b" twice, and the recipe "Ab", "b",
\* "b" scores 3 with it.
C9_Witness ==
    /\ pc = "idle"
    /\ mealPlan # Null
    /\ submitted = <<" ", "B", ",", "b">>
    /\ ingredientList = <<<<"b">>, <<"b">>>>
    /\ mealPlan.mainDish.ingredients = <<<<"A", "b">>, <<"b">>, <<"b">>>>
    /\ matchCount(mealPlan.mainDish.ingredients, ingredientList) = 3

====
